---- MODULE Spec2Model ----
(***************************************************************************)
(* A model of the 16-bit substitution-permutation network of spn/spn.py    *)
(* and of the linear / differential attack built on it                     *)
(* (cryptanalysis/searcher.py, cryptanalysis/framework.py,                 *)
(* cryptanalysis.py).                                                      *)
(*                                                                         *)
(* Python lists are 0-indexed; the sequences below are 1-indexed, so the   *)
(* Python expression  t[i]  is written  t[i + 1].  Exceptions are program  *)
(* positions named after the exception ("IndexError", "AssertionError").   *)
(***************************************************************************)
EXTENDS Integers, Sequences, FiniteSets, TLC

VARIABLES
    \* ---- spn/spn.py: one SPN object and one encrypt / decrypt round trip
    spn,        \* the constructed object (a record of its fields) or NoObject
    cargs,      \* the arguments the constructor was called with
    cpc,        \* position: "new", "built", "encrypted", "decrypted", or an exception
    pt,         \* plaintext handed to encrypt
    nr,         \* num_rounds handed to encrypt and decrypt
    ct,         \* encrypt's result
    dec,        \* decrypt's result
    \* ---- cryptanalysis/framework.py: get_target_partial_subkey
    tbeta,      \* the beta handed to get_target_partial_subkey
    tres,       \* its result (a set of bit positions)
    tpc,        \* "idle" or "returned"
    \* ---- cryptanalysis/searcher.py: one CharacteristicSearcher
    srch,       \* the searcher (its configuration and solver assertions) or NoObject
    spc,        \* "new", "ready", "returned", or an exception
    calls,      \* calls of search_best_characteristic made on it
    asked,      \* the sum of their num_solutions
    pre,        \* the searcher as the latest call found it
    results,    \* the list the latest call returned
    models,     \* the solver model behind each entry of results
    required,   \* the nibble indices handed to add_mandatory_nibble so far
    demanded,   \* required, as the latest call found it
    nsol,       \* num_solutions of the latest call
    \* ---- cryptanalysis/framework.py: one FrameworkProvider;
    \* ---- cryptanalysis.py: find_last_round_key on it
    fw,         \* the FrameworkProvider (a record of its fields) or NoObject
    apc,        \* "new", "built", "generated", "merging", "returned", or an exception
    chars,      \* the list generate_characteristics returned
    fn,         \* num_attack_samples of the find_last_round_key call
    guesses,    \* what _find_key_bits returned for each characteristic handled so far
    recovered,  \* the dict recovered_key_bits
    fkey,       \* find_last_round_key's result
    \* ---- cryptanalysis.py: one Cryptanalysis object and its helper methods
    eng,        \* the framework the object was built on, or NoObject
    epc,        \* "new", "built", "sampled", "decrypted", "found", "scored", or an exception
    eplain,     \* the plaintexts generate_samples drew
    ealpha,     \* the alpha handed to generate_samples
    esamples,   \* the list generate_samples returned
    ebeta,      \* the beta handed to _find_key_bits
    eguess,     \* the key_guess handed to _partially_decrypt or scored
    elists,     \* the two lists _partially_decrypt returned
    efound,     \* what _find_key_bits returned
    escore      \* the score of eguess

cipherVars == <<spn, cargs, cpc, pt, nr, ct, dec>>
targetVars == <<tbeta, tres, tpc>>
searchVars == <<srch, spc, calls, asked, pre, results, models, required, demanded, nsol>>
attackVars == <<fw, apc, chars, fn, guesses, recovered, fkey>>
engineVars == <<eng, epc, eplain, ealpha, esamples, ebeta, eguess, elists, efound, escore>>

NoObject == [none |-> TRUE]

(***************************************************************************)
(* Bounds of the model.                                                    *)
(***************************************************************************)
MaxRounds == 3      \* SPN objects are built with rounds in 1..MaxRounds
MaxPlain == 11      \* plaintexts drawn: PlainAt(0) .. PlainAt(MaxPlain)
MaxRoundsChar == 2  \* searchers are built with num_rounds in 1..MaxRoundsChar
MaxSolutions == 2   \* solutions asked of one searcher, summed over its calls
MaxCalls == 2       \* calls of search_best_characteristic on one searcher
MaxAttackSamples == 1  \* find_last_round_key is called with num_attack_samples in 0..MaxAttackSamples
MaxDraws == 1       \* the attack's plaintexts are drawn from PlainAt(0) .. PlainAt(MaxDraws)
MaxSamples == 2     \* generate_samples is called with num_samples in 0..MaxSamples

(***************************************************************************)
(* 16-bit integer arithmetic.  Every value the cipher handles is below     *)
(* 2^16, so Python's unbounded ^, &, >>, << act on four nibbles.           *)
(***************************************************************************)
Pow2(n) == 2 ^ n

\* f as a table of its values: a function expression is otherwise evaluated
\* anew at every application
Tabulated(f) == f @@ <<>>

Bit(x, i) == (x \div Pow2(i)) % 2

\* (state >> (i * 4)) & 0xF
Nibble(x, i) == (x \div Pow2(4 * i)) % 16

XorNib == Tabulated([a \in 0..15, b \in 0..15 |->
             LET s(i) == IF Bit(a, i) # Bit(b, i) THEN Pow2(i) ELSE 0
             IN  s(0) + s(1) + s(2) + s(3)])

AndNib == Tabulated([a \in 0..15, b \in 0..15 |->
             LET s(i) == IF Bit(a, i) = 1 /\ Bit(b, i) = 1 THEN Pow2(i) ELSE 0
             IN  s(0) + s(1) + s(2) + s(3)])

\* bin(a).count("1") % 2 for a nibble
ParNib ==
    Tabulated([a \in 0..15 |-> (Bit(a, 0) + Bit(a, 1) + Bit(a, 2) + Bit(a, 3)) % 2])

\* a ^ b
Xor(a, b) ==
    XorNib[Nibble(a, 0), Nibble(b, 0)] + 16 * XorNib[Nibble(a, 1), Nibble(b, 1)]
    + 256 * XorNib[Nibble(a, 2), Nibble(b, 2)]
    + 4096 * XorNib[Nibble(a, 3), Nibble(b, 3)]

\* altered: a | b
BitOr(a, b) ==
    a + b - (AndNib[Nibble(a, 0), Nibble(b, 0)] + 16 * AndNib[Nibble(a, 1), Nibble(b, 1)]
             + 256 * AndNib[Nibble(a, 2), Nibble(b, 2)]
             + 4096 * AndNib[Nibble(a, 3), Nibble(b, 3)])

\* a & b
BitAnd(a, b) ==
    AndNib[Nibble(a, 0), Nibble(b, 0)] + 16 * AndNib[Nibble(a, 1), Nibble(b, 1)]
    + 256 * AndNib[Nibble(a, 2), Nibble(b, 2)]
    + 4096 * AndNib[Nibble(a, 3), Nibble(b, 3)]

\* bin(a).count("1") % 2
Parity(a) ==
    (ParNib[Nibble(a, 0)] + ParNib[Nibble(a, 1)] + ParNib[Nibble(a, 2)]
     + ParNib[Nibble(a, 3)]) % 2

(***************************************************************************)
(* The tables and keys of the repository's example (tests/main.py), and    *)
(* the other constructor arguments the model draws.                        *)
(***************************************************************************)
RepoSbox == <<11, 1, 13, 7, 12, 9, 3, 15, 0, 10, 8, 6, 2, 5, 4, 14>>
RepoPbox == <<12, 8, 13, 9, 2, 0, 15, 5, 6, 7, 10, 14, 11, 3, 4, 1>>
RepoKeys == <<4660, 59998, 47806, 44294, 51966>>

\* a bit transposition (bit 4a+b <-> bit 4b+a): a bijection that is its own inverse
SwapPbox == [i \in 1..16 |-> 4 * ((i - 1) % 4) + ((i - 1) \div 4)]
\* not bijections: 11 twice and no 14; 12 twice and no 1
DupSbox == [RepoSbox EXCEPT ![16] = 11]
DupPbox == [RepoPbox EXCEPT ![16] = 12]
\* an entry outside 0..15
WideSbox == [RepoSbox EXCEPT ![16] = 16]

Sboxes == {RepoSbox, DupSbox, WideSbox}
Pboxes == {RepoPbox, SwapPbox, DupPbox}

\* a key list of any length, the repository's five keys repeated
KeyList(len) == [i \in 1..len |-> RepoKeys[((i - 1) % 5) + 1]]

\* random.randint(0, 0xFFFF): the values the model draws
PlainAt(i) == (i * 12123 + 7) % 65536
Plaintexts == {PlainAt(i) : i \in 0..MaxPlain}

IsBijection(t) == Len(t) = 16 /\ {t[i] : i \in 1..16} = 0..15

(***************************************************************************)
(* spn/spn.py: class SPN                                                   *)
(***************************************************************************)
\* inv = [0] * 16; for i, val in enumerate(table): inv[val] = i
\* (a value written twice keeps the last index, a value never written keeps 0)
InverseTable(table) ==
    [v \in 1..16 |->
        LET at == {i \in 1..16 : table[i] = v - 1}
        IN  IF at = {} THEN 0 ELSE (CHOOSE i \in at : \A j \in at : j <= i) - 1]

\* inv[val] = i raises IndexError when val is no index of a 16-element list
InitRaises(sbox, pbox) ==
    \E i \in 1..16 : sbox[i] \notin -16..15 \/ pbox[i] \notin -16..15

SPN_init(sbox, pbox, round_keys, rounds) ==
    [sbox |-> sbox, inv_sbox |-> InverseTable(sbox),
     pbox |-> pbox, inv_pbox |-> InverseTable(pbox),
     rounds |-> rounds, round_keys |-> round_keys]

\* output |= table[nibble] << (i * 4), i in range(4); table entries are nibbles
SubstituteWith(table, state) ==
    table[Nibble(state, 0) + 1] + 16 * table[Nibble(state, 1) + 1]
    + 256 * table[Nibble(state, 2) + 1] + 4096 * table[Nibble(state, 3) + 1]

substitution(s, state) == SubstituteWith(s.sbox, state)

inv_substitution(s, state) == SubstituteWith(s.inv_sbox, state)

\* permuted |= bit << table[i]: bit j of the result is the OR of the bits sent to j
RECURSIVE PermuteBits(_, _, _)
PermuteBits(table, state, j) ==
    IF j = 16 THEN 0
    ELSE (IF \E i \in 0..15 : table[i + 1] = j /\ Bit(state, i) = 1
          THEN Pow2(j) ELSE 0) + PermuteBits(table, state, j + 1)

permutation(s, state) == PermuteBits(s.pbox, state, 0)

inv_permutation(s, state) == PermuteBits(s.inv_pbox, state, 0)

\* round_keys[num_rounds] is read last: any num_rounds >= len(round_keys) raises
EncryptRaises(s, num_rounds) == num_rounds >= Len(s.round_keys)

\* the loop of encrypt, rounds i..num_rounds
RECURSIVE EncryptLoop(_, _, _, _)
EncryptLoop(s, state, i, num_rounds) ==
    IF i > num_rounds THEN state
    ELSE LET mixed == Xor(state, s.round_keys[i])
             subst == substitution(s, mixed)
             perm == IF i # num_rounds THEN permutation(s, subst) ELSE subst
         IN  EncryptLoop(s, perm, i + 1, num_rounds)

encrypt(s, plaintext, num_rounds) ==
    Xor(EncryptLoop(s, plaintext, 1, num_rounds), s.round_keys[num_rounds + 1])

\* the loop of decrypt, rounds i down to 1
RECURSIVE DecryptLoop(_, _, _, _)
DecryptLoop(s, state, i, num_rounds) ==
    IF i < 1 THEN state
    ELSE LET perm == IF i # num_rounds THEN permutation(s, state) ELSE state
             subst == inv_substitution(s, perm)
             mixed == Xor(subst, s.round_keys[i])
         IN  DecryptLoop(s, mixed, i - 1, num_rounds)

decrypt(s, ciphertext, num_rounds) ==
    DecryptLoop(s, Xor(ciphertext, s.round_keys[num_rounds + 1]), num_rounds, num_rounds)

(***************************************************************************)
(* The cipher as a state machine: construct, encrypt, decrypt.             *)
(***************************************************************************)
notCipher == <<targetVars, searchVars, attackVars, engineVars>>

\* SPN(sbox, pbox, round_keys, rounds)
Construct(sbox, pbox, round_keys, rounds) ==
    /\ cpc = "new"
    /\ cargs' = [sbox |-> sbox, pbox |-> pbox, round_keys |-> round_keys,
                 rounds |-> rounds]
    /\ IF InitRaises(sbox, pbox)
       THEN spn' = NoObject /\ cpc' = "IndexError"
       ELSE spn' = SPN_init(sbox, pbox, round_keys, rounds) /\ cpc' = "built"
    /\ UNCHANGED <<pt, nr, ct, dec>>
    /\ UNCHANGED notCipher

\* spn.encrypt(plaintext, num_rounds)
Encrypt(plaintext, num_rounds) ==
    /\ cpc = "built"
    /\ pt' = plaintext /\ nr' = num_rounds
    /\ IF EncryptRaises(spn, num_rounds)
       THEN ct' = ct /\ cpc' = "IndexError"
       ELSE ct' = encrypt(spn, plaintext, num_rounds) /\ cpc' = "encrypted"
    /\ UNCHANGED <<spn, cargs, dec>>
    /\ UNCHANGED notCipher

\* spn.decrypt(ct, num_rounds) on the ciphertext just produced
Decrypt ==
    /\ cpc = "encrypted"
    /\ dec' = decrypt(spn, ct, nr)
    /\ cpc' = "decrypted"
    /\ UNCHANGED <<spn, cargs, pt, nr, ct>>
    /\ UNCHANGED notCipher

NextCipher ==
    \/ \E sbox \in Sboxes, pbox \in Pboxes, rounds \in 1..MaxRounds,
          extra \in 0..2 :
          Construct(sbox, pbox, KeyList(rounds + extra), rounds)
    \/ \E plaintext \in Plaintexts, num_rounds \in 0..MaxRounds :
          Encrypt(plaintext, num_rounds)
    \/ Decrypt

(***************************************************************************)
(* cryptanalysis/framework.py: get_target_partial_subkey                   *)
(***************************************************************************)
\* the result with every masked bit alone, not its whole nibble
MaskedBitsOnly(beta) == {p \in 0..15 : Bit(beta, p) = 1}

\* for sbox_index in range(4): nibble_mask = (beta >> (sbox_index * 4)) & 0xF;
\* if nibble_mask != 0: add sbox_index * 4 + bit for bit in range(4)
get_target_partial_subkey(beta) ==
    UNION {IF Nibble(beta, sbox_index) # 0
           THEN {sbox_index * 4 + bit : bit \in 0..3}
           ELSE {} : sbox_index \in 0..3}

notTarget == <<cipherVars, searchVars, attackVars, engineVars>>

\* framework.get_target_partial_subkey(beta), for any 16-bit beta
GetTarget ==
    /\ tpc = "idle"
    /\ \E beta \in 0..65535 :
          /\ tbeta' = beta
          /\ tres' = get_target_partial_subkey(beta)
    /\ tpc' = "returned"
    /\ UNCHANGED notTarget

NextTarget == GetTarget

(***************************************************************************)
(* Exact scores.  A table entry is n/16 for an integer n # 0 (count - 8    *)
(* for the linear table, count for the differential one) or the sentinel   *)
(* 0.000001.  A product of entries is kept exactly as its sign, the        *)
(* product of the |n| (base 10000, least significant limb first), the      *)
(* number of n/16 factors and the number of sentinel factors:              *)
(*    value = (-1)^neg * mag / 16^sixteenths * 10^(-6 * tiny).             *)
(***************************************************************************)
RECURSIVE Carry10000s(_)
Carry10000s(carry) ==
    IF carry = 0 THEN <<>> ELSE <<carry % 10000>> \o Carry10000s(carry \div 10000)

\* mag * t for 1 <= t <= 65536, from limb i on
RECURSIVE Mul10000s(_, _, _, _)
Mul10000s(mag, t, i, carry) ==
    IF i > Len(mag) THEN Carry10000s(carry)
    ELSE LET v == mag[i] * t + carry
         IN  <<v % 10000>> \o Mul10000s(mag, t, i + 1, v \div 10000)

\* mag * t^n
RECURSIVE MulPow(_, _, _)
MulPow(mag, t, n) ==
    IF n = 0 THEN mag ELSE MulPow(Mul10000s(mag, t, 1, 0), t, n - 1)

ScoreOne == [neg |-> FALSE, mag |-> <<1>>, sixteenths |-> 0, tiny |-> 0]

Abs(n) == IF n < 0 THEN -n ELSE n

\* score * entry, the entry given as n (n/16), or as 0 for the sentinel
Times(score, n) ==
    IF n = 0
    THEN [score EXCEPT !.tiny = @ + 1]
    ELSE [neg |-> score.neg # (n < 0),
          mag |-> Mul10000s(score.mag, Abs(n), 1, 0),
          sixteenths |-> score.sixteenths + 1,
          tiny |-> score.tiny]

GreaterMag(a, b) ==
    \/ Len(a) > Len(b)
    \/ /\ Len(a) = Len(b)
       /\ \E i \in 1..Len(a) : a[i] > b[i] /\ \A j \in (i + 1)..Len(a) : a[j] = b[j]

Min(m, n) == IF m < n THEN m ELSE n

\* |a| > |b|, both sides multiplied by the powers of 16 and 10^6 that make
\* them integers
GreaterAbs(a, b) ==
    LET s == Min(a.sixteenths, b.sixteenths)
        t == Min(a.tiny, b.tiny)
    IN  GreaterMag(MulPow(MulPow(a.mag, 16, b.sixteenths - s), 1000, 2 * (b.tiny - t)),
                   MulPow(MulPow(b.mag, 16, a.sixteenths - s), 1000, 2 * (a.tiny - t)))

\* a > b
Greater(a, b) ==
    IF a.neg # b.neg THEN b.neg
    ELSE IF a.neg THEN GreaterAbs(b, a) ELSE GreaterAbs(a, b)

(***************************************************************************)
(* cryptanalysis/searcher.py: class CharacteristicSearcher                 *)
(***************************************************************************)
Variants == {"linear", "differential"}

\* the SPN instance the searcher and the attack are given
RepoSpn == SPN_init(RepoSbox, RepoPbox, RepoKeys, 4)

\* _compute_look_up_table: the number of x in range(16) counted for (alpha, beta)
TableCount(sbox, variant, alpha, beta) ==
    IF variant = "linear"
    THEN Cardinality({x \in 0..15 :
            ParNib[AndNib[alpha, x]] = ParNib[AndNib[beta, sbox[x + 1]]]})
    ELSE Cardinality({x \in 0..15 :
            XorNib[sbox[x + 1], sbox[XorNib[x, alpha] + 1]] = beta})

\* table[(alpha, beta)] in sixteenths: count/16 - 0.5 (linear) or count/16
\* (differential); 0 stands for the entry 0.000001 that replaces an exact zero
TableEntry(sbox, variant, alpha, beta) ==
    LET count == TableCount(sbox, variant, alpha, beta)
    IN  IF variant = "linear" THEN count - 8 ELSE count

look_up_table ==
    Tabulated([variant \in Variants |->
        Tabulated([a \in 0..15, b \in 0..15 |->
            TableEntry(RepoSpn.sbox, variant, a, b)])])

\* sum(active[r][j]) for one round: the nibbles of in_masks[r] that are not 0
ActiveCount(in) == Cardinality({i \in 0..3 : Nibble(in, i) # 0})

\* Implies(in_nib == 0, out_nib == 0): the values of out_masks[r] allowed for in_masks[r]
OutMasks(in) ==
    LET nib(i) == IF Nibble(in, i) = 0 THEN {0} ELSE 0..15
    IN  {o0 + 16 * o1 + 256 * o2 + 4096 * o3 :
            o0 \in nib(0), o1 \in nib(1), o2 \in nib(2), o3 \in nib(3)}

\* the product of prob_r{r}_n{0..3} for one round, times acc
RoundProduct(acc, variant, in, out) ==
    LET t(i) == look_up_table[variant][Nibble(in, i), Nibble(out, i)]
    IN  Times(Times(Times(Times(acc, t(0)), t(1)), t(2)), t(3))

\* in_masks[r + 1] as the permutation link fixes it from out_masks[r]:
\* Extract(pbox[i], pbox[i], in_masks[r + 1]) == Extract(i, i, out_masks[r]),
\* bit by bit, so nibble by nibble
LinkNib ==
    Tabulated([j \in 0..3, v \in 0..15 |-> permutation(RepoSpn, v * Pow2(4 * j))])

Linked(out) ==
    LinkNib[0, Nibble(out, 0)] + LinkNib[1, Nibble(out, 1)]
        + LinkNib[2, Nibble(out, 2)] + LinkNib[3, Nibble(out, 3)]

\* dropped: neither endpoint is constrained
EndpointsFree(ins) == TRUE

\* self.solver.add(self.in_masks[0] != 0); self.solver.add(self.in_masks[-1] != 0)
EndpointsNonzero(ins) == ins[1] # 0 /\ ins[Len(ins)] # 0

\* The assignments of in_masks, out_masks and total_bias that extend the
\* rounds fixed so far (ins, outs) and satisfy the constraints of
\* _add_constraints: zero propagation, the table link, the permutation link,
\* the cap on active S-boxes, the endpoint constraints and total_bias = the
\* product of all prob terms.  A branch through a mask that is not 0 is cut
\* when the cap leaves no active S-box for one of the rounds to come: a
\* round without one has the mask 0, which zero propagation and the
\* permutation link carry to in_masks[-1].
RECURSIVE Extend(_, _, _, _, _)
Extend(c, ins, outs, used, acc) ==
    LET in == ins[Len(ins)]
        act == ActiveCount(in)
        later == c.num_rounds - Len(outs) - 1
    IN  IF Len(outs) = c.num_rounds
        THEN IF EndpointsNonzero(ins)
             THEN {[in_masks |-> ins, out_masks |-> outs, total_bias |-> acc]}
             ELSE {}
        ELSE IF used + act > c.max_active_sboxes
                \/ (in # 0 /\ used + act + later > c.max_active_sboxes)
        THEN {}
        ELSE UNION {Extend(c, Append(ins, Linked(out)),
                           Append(outs, out), used + act,
                           RoundProduct(acc, c.variant, in, out)) :
                    out \in OutMasks(in)}

\* the masks whose nonzero nibbles are exactly those of J
MasksOn(J) ==
    LET nib(i) == IF i \in J THEN 1..15 ELSE {0}
    IN  {o0 + 16 * o1 + 256 * o2 + 4096 * o3 :
            o0 \in nib(0), o1 \in nib(1), o2 \in nib(2), o3 \in nib(3)}

\* the values of in_masks[0] that Extend does not cut at once
InputMasks(c) ==
    UNION {MasksOn(J) : J \in {I \in SUBSET (0..3) :
              I = {} \/ Cardinality(I) + c.num_rounds - 1 <= c.max_active_sboxes}}

\* the searcher configurations the model draws: the cap is at most num_rounds
SearchConfigs ==
    {c \in [variant : Variants, num_rounds : 1..MaxRoundsChar,
            max_active_sboxes : 0..MaxRoundsChar] :
        c.max_active_sboxes <= c.num_rounds}

\* per configuration and in_masks[0], every assignment satisfying the
\* constraints added by __init__
Assignments ==
    Tabulated([c \in SearchConfigs |->
        Tabulated([alpha \in InputMasks(c) |->
            Extend(c, <<alpha>>, <<>>, 0, ScoreOne)])])

\* CharacteristicSearcher(spn, num_rounds, variant, max_active_sboxes) for the
\* SPN instance RepoSpn: the configuration and the assertions add_mandatory_nibble
\* and search_best_characteristic add to self.solver later
CharacteristicSearcher_init(variant, num_rounds, max_active_sboxes) ==
    [variant |-> variant, num_rounds |-> num_rounds,
     max_active_sboxes |-> max_active_sboxes,
     mandatory |-> {}, blocked |-> {}]

Config(s) ==
    [variant |-> s.variant, num_rounds |-> s.num_rounds,
     max_active_sboxes |-> s.max_active_sboxes]

\* dropped: no constraint is added
add_nothing(s, required_blocks) == s

\* add_mandatory_nibble: nibble i of in_masks[-1] != 0 for every i in required_blocks
add_mandatory_nibble(s, required_blocks) ==
    [s EXCEPT !.mandatory = @ \cup {required_blocks[n] : n \in 1..Len(required_blocks)}]

Alpha(t) == t.in_masks[1]
Beta(t) == t.in_masks[Len(t.in_masks)]

\* altered: the blocking clauses are left out of what the solver asserts
AssertedMandatoryOnly(s, t) == \A i \in s.mandatory : Nibble(Beta(t), i) # 0

\* t satisfies the assertions added after __init__
Asserted(s, t) ==
    /\ \A i \in s.mandatory : Nibble(Beta(t), i) # 0
    /\ <<Alpha(t), Beta(t)>> \notin s.blocked

\* the values total_bias takes over the assignments of configuration c
ScoresOf(c) ==
    UNION {{t.total_bias : t \in Assignments[c][alpha]} :
              alpha \in DOMAIN Assignments[c]}

\* the assignments of each configuration, by their total_bias
ByScore ==
    Tabulated([c \in SearchConfigs |->
        Tabulated([x \in ScoresOf(c) |->
            UNION {{t \in Assignments[c][alpha] : t.total_bias = x} :
                      alpha \in DOMAIN Assignments[c]}])])

\* the satisfying assignments with total_bias = x
SatisfyingAt(s, x) == {t \in ByScore[Config(s)][x] : Asserted(s, t)}

\* self.solver.check() == sat
Sat(s) ==
    \E x \in DOMAIN ByScore[Config(s)] :
        \E t \in ByScore[Config(s)][x] : Asserted(s, t)

\* altered: the second greatest value, where there is one
NextToMaximum(S) ==
    LET top == CHOOSE x \in S : \A y \in S : ~Greater(y, x)
    IN  IF S = {top} THEN top
        ELSE CHOOSE x \in S \ {top} : \A y \in S \ {top} : ~Greater(y, x)

\* self.solver.maximize(total_bias)
Maximum(S) == CHOOSE x \in S : \A y \in S : ~Greater(y, x)

\* the values of S in the order the objective prefers them
RECURSIVE Preferred(_)
Preferred(S) ==
    IF S = {} THEN <<>>
    ELSE LET x == Maximum(S) IN <<x>> \o Preferred(S \ {x})

Preference == Tabulated([c \in SearchConfigs |-> Preferred(DOMAIN ByScore[c])])

\* the first value from position i of its configuration's preference order
\* that a satisfying assignment takes
RECURSIVE Optimum(_, _)
Optimum(s, i) ==
    LET x == Preference[Config(s)][i]
    IN  IF \E t \in ByScore[Config(s)][x] : Asserted(s, t) THEN x
        ELSE Optimum(s, i + 1)

\* the models self.solver.model() may return when check() is sat: the
\* satisfying assignments of the greatest total_bias
Models(s) == SatisfyingAt(s, Optimum(s, 1))

\* altered: no blocking clause is added
BlockNothing(s, alpha, beta) == s

\* self.solver.add(Or(self.in_masks[0] != alpha, self.in_masks[-1] != beta))
Block(s, alpha, beta) == [s EXCEPT !.blocked = @ \cup {<<alpha, beta>>}]

\* The for loop of search_best_characteristic with n iterations left: every
\* outcome [results, models, searcher] it can end with.
RECURSIVE SearchLoop(_, _, _, _, _)
SearchLoop(s, n, found, ms, seen) ==
    IF n = 0 \/ ~Sat(s)
    THEN {[results |-> found, models |-> ms, searcher |-> s]}
    ELSE UNION {
        LET alpha == Alpha(model)
            beta == Beta(model)
        IN  IF <<alpha, beta>> \in seen
            THEN SearchLoop(Block(s, alpha, beta), n - 1, found, ms, seen)
            ELSE SearchLoop(Block(s, alpha, beta), n - 1,
                            Append(found, [alpha |-> alpha, beta |-> beta,
                                           bias_product |-> model.total_bias]),
                            Append(ms, model), seen \cup {<<alpha, beta>>}) :
        model \in Models(s)}

search_best_characteristic(s, num_solutions) ==
    SearchLoop(s, num_solutions, <<>>, <<>>, {})

notSearch == <<cipherVars, targetVars, attackVars, engineVars>>

\* CharacteristicSearcher(...): the assert on variant, then the solver is set up
NewSearcher(variant, num_rounds, max_active_sboxes) ==
    /\ spc = "new"
    /\ IF variant \in Variants
       THEN /\ srch' = CharacteristicSearcher_init(variant, num_rounds, max_active_sboxes)
            /\ spc' = "ready"
       ELSE /\ srch' = srch
            /\ spc' = "AssertionError"
    /\ UNCHANGED <<calls, asked, pre, results, models, required, demanded, nsol>>
    /\ UNCHANGED notSearch

AddMandatoryNibble(required_blocks) ==
    /\ spc \in {"ready", "returned"}
    /\ srch' = add_mandatory_nibble(srch, required_blocks)
    /\ required' = required \cup {required_blocks[n] : n \in 1..Len(required_blocks)}
    /\ spc' = "ready"
    /\ UNCHANGED <<calls, asked, pre, results, models, demanded, nsol>>
    /\ UNCHANGED notSearch

SearchBestCharacteristic(num_solutions) ==
    /\ spc \in {"ready", "returned"}
    /\ calls < MaxCalls
    /\ asked + num_solutions <= MaxSolutions
    /\ \E outcome \in search_best_characteristic(srch, num_solutions) :
          /\ srch' = outcome.searcher
          /\ results' = outcome.results
          /\ models' = outcome.models
    /\ pre' = srch
    /\ demanded' = required
    /\ nsol' = num_solutions
    /\ UNCHANGED required
    /\ calls' = calls + 1
    /\ asked' = asked + num_solutions
    /\ spc' = "returned"
    /\ UNCHANGED notSearch

\* the lists add_mandatory_nibble is called with
RequiredBlocks == {<<2>>, <<0, 3>>}

NextSearch ==
    \/ \E variant \in Variants \cup {"other"}, num_rounds \in 1..MaxRoundsChar,
          max_active_sboxes \in 0..MaxRoundsChar :
          /\ max_active_sboxes <= num_rounds
          /\ NewSearcher(variant, num_rounds, max_active_sboxes)
    \/ \E required_blocks \in RequiredBlocks : AddMandatoryNibble(required_blocks)
    \/ \E num_solutions \in 0..MaxSolutions : SearchBestCharacteristic(num_solutions)

(***************************************************************************)
(* cryptanalysis/framework.py: class FrameworkProvider                     *)
(***************************************************************************)
\* the cipher under attack: the example's tables and keys, with one round
\* more than the longest characteristics searched
AttackSpn == SPN_init(RepoSbox, RepoPbox, KeyList(MaxRoundsChar + 2), MaxRoundsChar + 1)

FrameworkProvider_init(num_rounds_char, variant, max_active_sboxes) ==
    [spn |-> AttackSpn, num_rounds_char |-> num_rounds_char, variant |-> variant,
     max_active_sboxes |-> max_active_sboxes]

\* altered: nibble 0 is made mandatory in every search
MandatoryFirst(i) == <<0>>

\* searcher.add_mandatory_nibble([i])
MandatoryList(i) == <<i>>

\* The loop of generate_characteristics from nibble i on: every outcome it
\* can end with, the list masks or the IndexError of found[0] on an empty list.
RECURSIVE GenerateLoop(_, _, _)
GenerateLoop(f, i, masks) ==
    IF i = 4 THEN {[raised |-> "none", masks |-> masks]}
    ELSE LET searcher == add_mandatory_nibble(
                            CharacteristicSearcher_init(f.variant, f.num_rounds_char,
                                                        f.max_active_sboxes),
                            MandatoryList(i))
             founds == {o.results : o \in search_best_characteristic(searcher, 1)}
         IN  UNION {IF Len(found) = 0
                    THEN {[raised |-> "IndexError", masks |-> <<>>]}
                    ELSE GenerateLoop(f, i + 1, Append(masks, found[1])) :
                    found \in founds}

generate_characteristics(f) == GenerateLoop(f, 0, <<>>)

notAttack == <<cipherVars, targetVars, searchVars, engineVars>>

\* FrameworkProvider(...): the fields are stored, variant is asserted
NewFramework(num_rounds_char, variant, max_active_sboxes) ==
    /\ apc = "new"
    /\ IF variant \in Variants
       THEN /\ fw' = FrameworkProvider_init(num_rounds_char, variant, max_active_sboxes)
            /\ apc' = "built"
       ELSE /\ fw' = fw
            /\ apc' = "AssertionError"
    /\ UNCHANGED <<chars, fn, guesses, recovered, fkey>>
    /\ UNCHANGED notAttack

GenerateCharacteristics ==
    /\ apc = "built"
    /\ \E outcome \in generate_characteristics(fw) :
          /\ chars' = outcome.masks
          /\ apc' = IF outcome.raised = "none" THEN "generated" ELSE outcome.raised
    /\ UNCHANGED <<fw, fn, guesses, recovered, fkey>>
    /\ UNCHANGED notAttack

\* generate_samples for the plaintexts random.randint draws, in order
generate_samples(f, plaintexts, alpha) ==
    IF f.variant = "linear"
    THEN [n \in 1..Len(plaintexts) |->
            <<plaintexts[n], encrypt(f.spn, plaintexts[n], f.spn.rounds)>>]
    ELSE [n \in 1..Len(plaintexts) |->
            <<encrypt(f.spn, plaintexts[n], f.spn.rounds),
              encrypt(f.spn, Xor(plaintexts[n], alpha), f.spn.rounds)>>]

(***************************************************************************)
(* cryptanalysis.py: class Cryptanalysis                                   *)
(***************************************************************************)
\* altered: the key_guess is not mixed in before the inverse substitution
DecryptUnkeyed(f, samples, key_guess) ==
    IF f.variant = "linear"
    THEN <<[n \in 1..Len(samples) |-> samples[n][1]],
           [n \in 1..Len(samples) |-> inv_substitution(f.spn, samples[n][2])]>>
    ELSE <<[n \in 1..Len(samples) |-> inv_substitution(f.spn, samples[n][1])],
           [n \in 1..Len(samples) |-> inv_substitution(f.spn, samples[n][2])]>>

\* _partially_decrypt: the two lists it returns
partially_decrypt(f, samples, key_guess) ==
    IF f.variant = "linear"
    THEN <<[n \in 1..Len(samples) |-> samples[n][1]],
           [n \in 1..Len(samples) |->
               inv_substitution(f.spn, Xor(samples[n][2], key_guess))]>>
    ELSE <<[n \in 1..Len(samples) |->
               inv_substitution(f.spn, Xor(samples[n][1], key_guess))],
           [n \in 1..Len(samples) |->
               inv_substitution(f.spn, Xor(samples[n][2], key_guess))]>>

\* count after the inner loop of _find_key_bits for one key_guess
Count(f, alpha, beta, samples, key_guess) ==
    LET lists == partially_decrypt(f, samples, key_guess)
    IN  IF f.variant = "linear"
        THEN Cardinality({n \in 1..Len(samples) :
                Parity(BitAnd(alpha, lists[1][n])) = Parity(BitAnd(beta, lists[2][n]))})
        ELSE Cardinality({n \in 1..Len(samples) :
                Xor(lists[1][n], lists[2][n]) = beta})

\* bias_key = count / N - 0.5 in units of 1 / (2 * N), or prob_key = count / N
\* in units of 1 / N, for N = len(attack_samples) >= 1.  Within one call N is
\* the same for every key_guess, and within one find_last_round_key call for
\* every characteristic, so the scaled values compare as the quotients do.
Score(f, alpha, beta, samples, key_guess) ==
    IF f.variant = "linear"
    THEN 2 * Count(f, alpha, beta, samples, key_guess) - Len(samples)
    ELSE Count(f, alpha, beta, samples, key_guess)

\* list(S) for a set S of bit positions: CPython lists these sets in
\* ascending order
RECURSIVE Ascending(_)
Ascending(S) ==
    IF S = {} THEN <<>>
    ELSE LET m == CHOOSE x \in S : \A y \in S : x <= y
         IN  <<m>> \o Ascending(S \ {m})

\* key_guess |= (1 << bit_pos) for every i with (guess >> i) & 1
RECURSIVE KeyGuess(_, _, _)
KeyGuess(active_bits, guess, i) ==
    IF i > Len(active_bits) THEN 0
    ELSE (IF Bit(guess, i - 1) = 1 THEN Pow2(active_bits[i]) ELSE 0)
         + KeyGuess(active_bits, guess, i + 1)

\* altered: a key_guess that reaches the running maximum replaces the best one
ReachesOrExceeds(score, max) == score >= max

\* if bias_key > bias_max / if prob_key > prob_max
Exceeds(score, max) == score > max

\* the body of the loop over guess for one guess
TryGuess(f, alpha, beta, samples, active_bits, acc, guess) ==
    LET key_guess == KeyGuess(active_bits, guess, 1)
        score == Score(f, alpha, beta, samples, key_guess)
    IN  IF Exceeds(score, acc.max)
        THEN [best_key_guess |-> key_guess, max |-> score]
        ELSE acc

\* the values best_key_guess and bias_max / prob_max can have during the loop
Running == [best_key_guess : 0..65535, max : Int]

\* for guess in range(1 << len(active_bits)), in increasing order, from
\* best_key_guess = 0 and bias_max = prob_max = 0: loop[acc, lo, hi] is the
\* running pair after the guesses lo .. hi, taken up from the pair acc
GuessLoop(f, alpha, beta, samples, active_bits) ==
    LET loop[acc \in Running, lo \in Nat, hi \in Nat] ==
            IF lo = hi THEN TryGuess(f, alpha, beta, samples, active_bits, acc, lo)
            ELSE loop[loop[acc, lo, (lo + hi) \div 2], (lo + hi) \div 2 + 1, hi]
    IN  loop[[best_key_guess |-> 0, max |-> 0], 0, Pow2(Len(active_bits)) - 1]

\* _find_key_bits: (recovered_bits, bias_max or prob_max), or the
\* ZeroDivisionError of count / N for an empty sample list
find_key_bits(f, alpha, beta, attack_samples) ==
    LET active_bits == Ascending(get_target_partial_subkey(beta))
        last == GuessLoop(f, alpha, beta, attack_samples, active_bits)
    IN  IF Len(attack_samples) = 0
        THEN [raised |-> "ZeroDivisionError"]
        ELSE [raised |-> "none",
              recovered_bits |-> [n \in 1..Len(active_bits) |->
                                     <<active_bits[n], Bit(last.best_key_guess, active_bits[n])>>],
              max |-> last.max]

(***************************************************************************)
(* The helper methods of Cryptanalysis as a state machine: an object on a  *)
(* framework, samples from generate_samples, then _partially_decrypt,      *)
(* _find_key_bits, or the score of one key_guess.                          *)
(***************************************************************************)
notEngine == <<cipherVars, targetVars, searchVars, attackVars>>

\* the ciphers the helper methods are run on
EngineSpn(rounds) == SPN_init(RepoSbox, RepoPbox, KeyList(rounds + 1), rounds)

\* the plaintexts random.randint draws for the helper methods
EnginePlain == {PlainAt(0), PlainAt(1)}

\* masks and differences handed in as alpha and as beta: one, one and two
\* active nibbles
EngineAlphas == {64, 2829}
EngineBetas == {64, 1536, 2829}

\* Cryptanalysis(FrameworkProvider(spn, num_rounds_char, variant, max_active_sboxes))
NewEngine(rounds, variant) ==
    /\ epc = "new"
    /\ eng' = [spn |-> EngineSpn(rounds), num_rounds_char |-> rounds - 1,
               variant |-> variant, max_active_sboxes |-> rounds - 1]
    /\ epc' = "built"
    /\ UNCHANGED <<eplain, ealpha, esamples, ebeta, eguess, elists, efound, escore>>
    /\ UNCHANGED notEngine

\* self.framework.generate_samples(num_samples, alpha)
GenerateSamples(plaintexts, alpha) ==
    /\ epc = "built"
    /\ eplain' = plaintexts
    /\ ealpha' = alpha
    /\ esamples' = generate_samples(eng, plaintexts, alpha)
    /\ epc' = "sampled"
    /\ UNCHANGED <<eng, ebeta, eguess, elists, efound, escore>>
    /\ UNCHANGED notEngine

\* self._partially_decrypt(samples, key_guess)
PartiallyDecrypt(key_guess) ==
    /\ epc = "sampled"
    /\ eguess' = key_guess
    /\ elists' = partially_decrypt(eng, esamples, key_guess)
    /\ epc' = "decrypted"
    /\ UNCHANGED <<eng, eplain, ealpha, esamples, ebeta, efound, escore>>
    /\ UNCHANGED notEngine

\* self._find_key_bits(alpha, beta, attack_samples)
FindKeyBits(beta) ==
    /\ epc = "sampled"
    /\ ebeta' = beta
    /\ efound' = find_key_bits(eng, ealpha, beta, esamples)
    /\ epc' = IF efound'.raised = "none" THEN "found" ELSE efound'.raised
    /\ UNCHANGED <<eng, eplain, ealpha, esamples, eguess, elists, escore>>
    /\ UNCHANGED notEngine

\* the body of the loop of _find_key_bits from count = 0 on, for one key_guess
ScoreGuess(beta, key_guess) ==
    /\ epc = "sampled"
    /\ Len(esamples) > 0
    /\ ebeta' = beta
    /\ eguess' = key_guess
    /\ escore' = Score(eng, ealpha, beta, esamples, key_guess)
    /\ epc' = "scored"
    /\ UNCHANGED <<eng, eplain, ealpha, esamples, elists, efound>>
    /\ UNCHANGED notEngine

\* the key guesses handed to _partially_decrypt: the last round key, and others
EngineGuesses(f) == {f.spn.round_keys[f.spn.rounds + 1], 0, 47806, 65535}

NextEngine ==
    \/ \E rounds \in 1..MaxRounds, variant \in Variants : NewEngine(rounds, variant)
    \/ \E num_samples \in 0..MaxSamples :
          \E plaintexts \in [1..num_samples -> EnginePlain], alpha \in EngineAlphas :
              GenerateSamples(plaintexts, alpha)
    \/ /\ epc = "sampled"
       /\ \E key_guess \in EngineGuesses(eng) : PartiallyDecrypt(key_guess)
    \/ \E beta \in EngineBetas : FindKeyBits(beta)
    \/ /\ epc = "sampled"
       /\ \E beta \in EngineBetas, key_guess \in EngineGuesses(eng) :
             ScoreGuess(beta, key_guess)

\* altered: an entry is also replaced by an equal score
NotLower(bias_key, existing_bias) == bias_key >= existing_bias

\* if bias_key > existing_bias
Higher(bias_key, existing_bias) == bias_key > existing_bias

\* the inner loop of find_last_round_key: recovered_key_bits after the items
\* of key_bit_guesses from item n on are merged in
RECURSIVE MergeBits(_, _, _, _)
MergeBits(map, key_bit_guesses, bias_key, n) ==
    IF n > Len(key_bit_guesses) THEN map
    ELSE LET bit_pos == key_bit_guesses[n][1]
             entry == [bit_value |-> key_bit_guesses[n][2], bias |-> bias_key]
             merged == IF bit_pos \notin DOMAIN map
                       THEN (bit_pos :> entry) @@ map
                       ELSE IF Higher(bias_key, map[bit_pos].bias)
                            THEN [map EXCEPT ![bit_pos] = entry]
                            ELSE map
         IN  MergeBits(merged, key_bit_guesses, bias_key, n + 1)

\* final_key |= (1 << bit_pos) for every entry with bit_val
FinalKey(map) ==
    LET set(p) == IF p \in DOMAIN map /\ map[p].bit_value # 0 THEN Pow2(p) ELSE 0
    IN  set(0) + set(1) + set(2) + set(3) + set(4) + set(5) + set(6) + set(7)
        + set(8) + set(9) + set(10) + set(11) + set(12) + set(13) + set(14) + set(15)

\* num_attack_samples draws of random.randint(0, 0xFFFF)
Draws(num_samples) == [1..num_samples -> {PlainAt(i) : i \in 0..MaxDraws}]

\* the frameworks find_last_round_key is run on: the characteristics span
\* all rounds of the cipher but the last, as in tests/main.py
AttackFrameworks ==
    {FrameworkProvider_init(AttackSpn.rounds - 1, variant, max_active_sboxes) :
        variant \in Variants, max_active_sboxes \in 0..(AttackSpn.rounds - 1)}

\* the (alpha, beta) of the characteristics generate_characteristics can return
PairsOf(f) ==
    UNION {{<<o.masks[n].alpha, o.masks[n].beta>> : n \in 1..Len(o.masks)} :
              o \in generate_characteristics(f)}

\* _find_key_bits(alpha, beta, generate_samples(len(plaintexts), alpha)) for
\* the frameworks, characteristics and draws of find_last_round_key
KeyBits ==
    Tabulated([f \in AttackFrameworks |->
        Tabulated([pair \in PairsOf(f) |->
            Tabulated([plaintexts \in UNION {Draws(n) : n \in 0..MaxAttackSamples} |->
                find_key_bits(f, pair[1], pair[2],
                              generate_samples(f, plaintexts, pair[1]))])])])

\* find_last_round_key up to its loop: generate_characteristics is called
FindLastRoundKey(num_attack_samples) ==
    /\ apc = "built"
    /\ fw.num_rounds_char = fw.spn.rounds - 1
    /\ \E outcome \in generate_characteristics(fw) :
          /\ chars' = outcome.masks
          /\ apc' = IF outcome.raised = "none" THEN "merging" ELSE outcome.raised
    /\ fn' = num_attack_samples
    /\ guesses' = <<>>
    /\ recovered' = <<>>
    /\ UNCHANGED <<fw, fkey>>
    /\ UNCHANGED notAttack

\* one pass of the loop over characteristics: samples, _find_key_bits, merge
MergeNext ==
    /\ apc = "merging"
    /\ Len(guesses) < Len(chars)
    /\ LET char == chars[Len(guesses) + 1]
       IN  \E plaintexts \in Draws(fn) :
              \E found \in {KeyBits[fw][<<char.alpha, char.beta>>][plaintexts]} :
                  IF found.raised = "none"
                  THEN /\ guesses' = Append(guesses, [key_bit_guesses |-> found.recovered_bits,
                                                      bias_key |-> found.max])
                       /\ recovered' = MergeBits(recovered, found.recovered_bits,
                                                 found.max, 1)
                       /\ apc' = apc
                  ELSE /\ apc' = found.raised
                       /\ UNCHANGED <<guesses, recovered>>
    /\ UNCHANGED <<fw, chars, fn, fkey>>
    /\ UNCHANGED notAttack

\* after the loop: the key is put together and returned
ReturnKey ==
    /\ apc = "merging"
    /\ Len(guesses) = Len(chars)
    /\ fkey' = FinalKey(recovered)
    /\ apc' = "returned"
    /\ UNCHANGED <<fw, chars, fn, guesses, recovered>>
    /\ UNCHANGED notAttack

NextAttack ==
    \/ \E num_rounds_char \in 1..MaxRoundsChar, variant \in Variants \cup {"other"},
          max_active_sboxes \in 0..MaxRoundsChar :
          /\ max_active_sboxes <= num_rounds_char
          /\ NewFramework(num_rounds_char, variant, max_active_sboxes)
    \/ GenerateCharacteristics
    \/ \E num_attack_samples \in 0..MaxAttackSamples : FindLastRoundKey(num_attack_samples)
    \/ MergeNext
    \/ ReturnKey

(***************************************************************************)
(* Specifications.  Every one starts before anything is constructed.       *)
(***************************************************************************)
vars == <<cipherVars, targetVars, searchVars, attackVars, engineVars>>

Init ==
    /\ spn = NoObject /\ cargs = NoObject /\ cpc = "new"
    /\ pt = 0 /\ nr = 0 /\ ct = 0 /\ dec = 0
    /\ tbeta = 0 /\ tres = {} /\ tpc = "idle"
    /\ srch = NoObject /\ spc = "new" /\ calls = 0 /\ asked = 0
    /\ pre = NoObject /\ results = <<>> /\ models = <<>>
    /\ required = {} /\ demanded = {} /\ nsol = 0
    /\ fw = NoObject /\ apc = "new" /\ chars = <<>> /\ fn = 0
    /\ guesses = <<>> /\ recovered = <<>> /\ fkey = 0
    /\ eng = NoObject /\ epc = "new" /\ eplain = <<>> /\ ealpha = 0
    /\ esamples = <<>> /\ ebeta = 0 /\ eguess = 0
    /\ elists = <<>> /\ efound = NoObject /\ escore = 0

SpecCipher == Init /\ [][NextCipher]_vars

SpecTarget == Init /\ [][NextTarget]_vars

SpecSearch == Init /\ [][NextSearch]_vars

SpecAttack == Init /\ [][NextAttack]_vars
SpecKeyBits == Init /\ [][NextEngine]_vars

(***************************************************************************)
(* Properties of the cipher (SpecCipher).                                  *)
(***************************************************************************)
\* the configuration the specification calls valid
ValidConfig(a) ==
    /\ IsBijection(a.sbox) /\ IsBijection(a.pbox)
    /\ Len(a.round_keys) = a.rounds + 1

\* C1 (as claimed): with a bijective sbox and pbox and rounds + 1 round keys,
\* decrypt(encrypt(P, N), N) = P for every plaintext P, N being the round count.
C1_Involution ==
    (cpc = "decrypted" /\ ValidConfig(cargs) /\ nr = cargs.rounds) => dec = pt

\* C2 (as claimed): no SPN object exists, or is used by encrypt or decrypt,
\* whose sbox or pbox is not a bijection or whose key count is not rounds + 1.
C2_ConfigRejected ==
    cpc \in {"built", "encrypted", "decrypted"} => ValidConfig(cargs)

(***************************************************************************)
(* Properties of get_target_partial_subkey (SpecTarget).                   *)
(***************************************************************************)
\* C5: bit position p is in get_target_partial_subkey(beta) exactly when some
\* bit of beta in p's nibble (positions 4 * (p div 4) .. 4 * (p div 4) + 3) is
\* set; the result is a union of whole nibbles and is empty exactly for beta = 0.
C5_PerNibble ==
    tpc = "returned" =>
        /\ \A p \in 0..15 :
              p \in tres <=> \E b \in 0..3 : Bit(tbeta, 4 * (p \div 4) + b) = 1
        /\ \E js \in SUBSET (0..3) : tres = {4 * j + b : j \in js, b \in 0..3}
        /\ (tres = {}) <=> (tbeta = 0)

\* C5 witness: a beta masking one bit of nibble 2 yields all four bits of nibble 2
C5_Witness == tpc = "returned" /\ tbeta = 1024 /\ tres = {8, 9, 10, 11}

(***************************************************************************)
(* Properties of the searcher (SpecSearch).                                *)
(***************************************************************************)
\* C6: every characteristic a search_best_characteristic call returns has a
\* nonzero nibble of beta at each index made mandatory before the call, also
\* when blocking clauses of earlier results are in force.
C6_MandatoryHonored ==
    spc \in {"ready", "returned"} =>
        \A n \in 1..Len(results) :
            \A i \in demanded : Nibble(results[n].beta, i) # 0

\* C6 witness: a second call on a searcher with nibbles 0 and 3 mandatory and
\* a blocking clause from the first call returns a characteristic
C6_Witness ==
    /\ spc = "returned" /\ calls = 2
    /\ demanded = {0, 3} /\ pre.blocked # {}
    /\ Len(results) = 1

\* C7: every returned characteristic has alpha # 0 and beta # 0.
C7_EndpointsNonzero ==
    \A n \in 1..Len(results) : results[n].alpha # 0 /\ results[n].beta # 0

\* C7 witness: two characteristics returned by a differential two-round search
C7_Witness ==
    /\ spc = "returned" /\ Len(results) = 2
    /\ srch.variant = "differential" /\ srch.num_rounds = 2

\* the product of the table entries of all (round, nibble) transitions of t
RECURSIVE TrailProduct(_, _, _)
TrailProduct(variant, t, r) ==
    IF r = 0 THEN ScoreOne
    ELSE RoundProduct(TrailProduct(variant, t, r - 1), variant,
                      t.in_masks[r], t.out_masks[r])

\* the searcher as it stood when results[n] was found
Before(n) ==
    [pre EXCEPT !.blocked = @ \cup {<<results[j].alpha, results[j].beta>> : j \in 1..(n - 1)}]

\* C8: each returned score is the product of the table entries along the
\* trail of its model, no assignment satisfying the constraints and the
\* blocking clauses added so far has a greater product, and successive
\* scores do not increase.
C8_BestFirst ==
    spc = "returned" =>
        /\ \A n \in 1..Len(results) :
              /\ results[n].alpha = Alpha(models[n])
              /\ results[n].beta = Beta(models[n])
              /\ results[n].bias_product
                    = TrailProduct(pre.variant, models[n], pre.num_rounds)
              /\ \A x \in DOMAIN ByScore[Config(pre)] :
                    Greater(x, results[n].bias_product) =>
                        \A t \in ByScore[Config(pre)][x] : ~Asserted(Before(n), t)
        /\ \A n \in 1..(Len(results) - 1) :
              ~Greater(results[n + 1].bias_product, results[n].bias_product)

\* C8 witness: a linear two-round search returns two characteristics, the
\* second with a strictly smaller score than the first
C8_Witness ==
    /\ spc = "returned" /\ Len(results) = 2
    /\ pre.variant = "linear" /\ pre.num_rounds = 2
    /\ Greater(results[1].bias_product, results[2].bias_product)

\* C12: a search_best_characteristic(num_solutions) call never spends an
\* iteration on a pair it already returned (every solve adds a result), and
\* it returns fewer than num_solutions characteristics only when the solver,
\* with the clauses then in force, is unsatisfiable.
C12_ShortOnlyWhenUnsat ==
    spc = "returned" =>
        /\ Len(models) = Len(results)
        /\ Len(results) < nsol => ~Sat(srch)
        /\ Sat(srch) => Len(results) = nsol

\* C12 witness: a call asking for two characteristics of an unsatisfiable
\* search returned fewer
C12_Witness ==
    /\ spc = "returned" /\ nsol = 2
    /\ Len(results) < nsol /\ ~Sat(srch)

\* the trails of the searcher's configuration with the endpoints of results[n]
SameEndpoints(n) ==
    {t \in Assignments[Config(pre)][results[n].alpha] : Beta(t) = results[n].beta}

\* C13: the recorded results have pairwise distinct (alpha, beta) pairs, none
\* of them a pair an earlier call recorded; the clauses in force after the call
\* are those before it and one per recorded pair, on (alpha, beta) alone, so
\* that no trail with a recorded pair's endpoints satisfies the solver any
\* more, whatever its intermediate masks; the list has at most num_solutions
\* entries.
C13_EndpointBlocking ==
    spc = "returned" =>
        /\ \A m, n \in 1..Len(results) :
              m # n => <<results[m].alpha, results[m].beta>>
                          # <<results[n].alpha, results[n].beta>>
        /\ \A n \in 1..Len(results) :
              /\ <<results[n].alpha, results[n].beta>> \notin pre.blocked
              /\ \A t \in SameEndpoints(n) : ~Asserted(srch, t)
              /\ \A m \in 1..(n - 1) : models[n] \notin SameEndpoints(m)
        /\ srch.blocked = pre.blocked
                \cup {<<results[n].alpha, results[n].beta>> : n \in 1..Len(results)}
        /\ Len(results) <= nsol

\* C13 witness: with a blocking clause of an earlier call in force, a second
\* call returned a characteristic whose endpoints are shared by a trail with
\* different intermediate masks
C13_Witness ==
    /\ spc = "returned" /\ calls = 2 /\ Len(results) = 1
    /\ pre.blocked # {}
    /\ \E t \in Assignments[Config(pre)][results[1].alpha] :
          /\ Beta(t) = results[1].beta
          /\ t.in_masks # models[1].in_masks

(***************************************************************************)
(* Properties of the framework and of find_last_round_key (SpecAttack).    *)
(***************************************************************************)

\* C3 (as claimed): generate_characteristics and find_last_round_key do not
\* fail when a constrained search has no satisfying trail; no call ends in the
\* IndexError of an empty result list.
C3_Recoverable == apc # "IndexError"

\* C4: the union of get_target_partial_subkey(beta) over the four
\* characteristics generate_characteristics returns is {0, ..., 15}, the i-th
\* one having nibble i of beta nonzero.
C4_Coverage ==
    apc \in {"generated", "merging", "returned"} =>
        /\ Len(chars) = 4
        /\ \A i \in 0..3 : Nibble(chars[i + 1].beta, i) # 0
        /\ UNION {get_target_partial_subkey(chars[n].beta) : n \in 1..4} = 0..15

\* C4 witness: generate_characteristics has returned four characteristics
\* whose betas are four different masks
C4_Witness ==
    /\ apc = "generated" /\ Len(chars) = 4
    /\ Cardinality({chars[n].beta : n \in 1..4}) = 4

\* the bit positions the n-th merged characteristic assigns
Covered(n) == {guesses[n].key_bit_guesses[k][1] : k \in 1..Len(guesses[n].key_bit_guesses)}

\* the value the n-th merged characteristic assigns to bit position p
ValueAt(n, p) ==
    LET k == CHOOSE k \in 1..Len(guesses[n].key_bit_guesses) :
                 guesses[n].key_bit_guesses[k][1] = p
    IN  guesses[n].key_bit_guesses[k][2]

\* the earliest of the merged characteristics covering p whose score is
\* maximal among those covering p
EarliestBest(p) ==
    LET covering == {n \in 1..Len(guesses) : p \in Covered(n)}
    IN  CHOOSE n \in covering :
            /\ \A m \in covering : guesses[m].bias_key <= guesses[n].bias_key
            /\ \A m \in covering : guesses[m].bias_key = guesses[n].bias_key => n <= m

\* C11: after the characteristics merged so far, a bit position is in the
\* running map exactly when one of them covers it, and then holds the value
\* and the score of the earliest one whose score is maximal among those
\* covering it; the returned key has bit p set exactly when the map holds
\* value 1 for p, so uncovered bits are 0.
C11_MergeRule ==
    /\ apc \in {"merging", "returned"} =>
          \A p \in 0..15 :
              IF \E n \in 1..Len(guesses) : p \in Covered(n)
              THEN /\ p \in DOMAIN recovered
                   /\ recovered[p] = [bit_value |-> ValueAt(EarliestBest(p), p),
                                      bias |-> guesses[EarliestBest(p)].bias_key]
              ELSE p \notin DOMAIN recovered
    /\ apc = "returned" =>
          \A p \in 0..15 :
              Bit(fkey, p) = 1 <=> (p \in DOMAIN recovered /\ recovered[p].bit_value = 1)

\* C11 witness: a key was returned after a later characteristic replaced the
\* bits of an earlier one by a strictly higher score, and after another one
\* with an equal score and different bit values left the earlier entry alone
C11_Witness ==
    /\ apc = "returned"
    /\ \E p \in 0..15 : \E m, n \in 1..Len(guesses) :
          /\ m < n /\ p \in Covered(m) \cap Covered(n)
          /\ guesses[n].bias_key > guesses[m].bias_key
    /\ \E p \in 0..15 : \E m, n \in 1..Len(guesses) :
          /\ m < n /\ p \in Covered(m) \cap Covered(n)
          /\ m = EarliestBest(p)
          /\ guesses[n].bias_key = guesses[m].bias_key
          /\ ValueAt(n, p) # ValueAt(m, p)

\* C16: after the characteristics merged so far, the four bit positions of a
\* nibble are all absent from the running map or all present, and then all
\* four hold the values and the score of one and the same characteristic.
C16_WholeNibbles ==
    apc \in {"merging", "returned"} =>
        \A j \in 0..3 :
            \/ \A b \in 0..3 : 4 * j + b \notin DOMAIN recovered
            \/ \E n \in 1..Len(guesses) :
                  \A b \in 0..3 :
                      /\ 4 * j + b \in Covered(n)
                      /\ 4 * j + b \in DOMAIN recovered
                      /\ recovered[4 * j + b]
                            = [bit_value |-> ValueAt(n, 4 * j + b),
                               bias |-> guesses[n].bias_key]

\* C16 witness: in the middle of the merge one nibble is held by a
\* characteristic that covers two nibbles while another nibble is still absent
C16_Witness ==
    /\ apc = "merging" /\ Len(guesses) < Len(chars)
    /\ \E n \in 1..Len(guesses) : Cardinality(Covered(n)) >= 8
    /\ \E j \in 0..3 : \A b \in 0..3 : 4 * j + b \notin DOMAIN recovered
    /\ \E j \in 0..3 : \A b \in 0..3 : 4 * j + b \in DOMAIN recovered

(***************************************************************************)
(* Properties of the helper methods of Cryptanalysis (SpecKeyBits).        *)
(***************************************************************************)

\* active_bits of the latest _find_key_bits call or scored guess
ActiveBits == Ascending(get_target_partial_subkey(ebeta))

\* the candidate key guesses in the order of enumeration, by guess index
Candidate(guess) == KeyGuess(ActiveBits, guess, 1)

\* the score of every candidate of the latest _find_key_bits call
CandidateScores ==
    [guess \in 0..(Pow2(Len(ActiveBits)) - 1) |->
        Score(eng, ealpha, ebeta, esamples, Candidate(guess))]

\* the assignment recovered_bits holds when key_guess is the best guess
AssignmentOf(key_guess) ==
    [n \in 1..Len(ActiveBits) |-> <<ActiveBits[n], Bit(key_guess, ActiveBits[n])>>]

\* C9: when the largest score over the candidates is strictly greater than 0,
\* _find_key_bits returns the assignment of the candidate of lowest guess
\* index having that score, and the score returned is that maximum.
C9_FirstMaximum ==
    epc = "found" =>
        LET scores == CandidateScores
            top == CHOOSE x \in {scores[g] : g \in DOMAIN scores} :
                       \A g \in DOMAIN scores : scores[g] <= x
            first == CHOOSE g \in DOMAIN scores :
                         /\ scores[g] = top
                         /\ \A h \in DOMAIN scores : scores[h] = top => g <= h
        IN  top > 0 =>
                /\ efound.max = top
                /\ efound.recovered_bits = AssignmentOf(Candidate(first))

\* C9 witness: several candidates share a maximal score above 0, a candidate
\* before the first of them has a lower score above 0, and the first of them
\* is not guess 0
C9_Witness ==
    /\ epc = "found" /\ efound.max > 0
    /\ \E n \in 1..Len(efound.recovered_bits) : efound.recovered_bits[n][2] = 1
    /\ LET scores == CandidateScores
       IN  /\ Cardinality({g \in DOMAIN scores : scores[g] = efound.max}) > 1
           /\ \E g, h \in DOMAIN scores :
                 /\ g < h /\ scores[g] > 0 /\ scores[g] < scores[h]

OnBits(key_guess, bits) ==
    LET at(p) == IF p \in bits THEN Bit(key_guess, p) * Pow2(p) ELSE 0
    IN  at(0) + at(1) + at(2) + at(3) + at(4) + at(5) + at(6) + at(7)
        + at(8) + at(9) + at(10) + at(11) + at(12) + at(13) + at(14) + at(15)

\* C14: the score of a 16-bit key guess is the score of the guess with the
\* bits outside get_target_partial_subkey(beta) cleared, so two guesses that
\* agree on the bits of get_target_partial_subkey(beta) have the same score.
C14_InactiveBitsIgnored ==
    epc = "scored" =>
        escore = Score(eng, ealpha, ebeta, esamples,
                       OnBits(eguess, get_target_partial_subkey(ebeta)))

\* C14 witness: a guess with bits set outside the active nibbles, whose bits
\* inside them give a candidate other than guess 0, scored above 0
C14_Witness ==
    /\ epc = "scored" /\ escore > 0
    /\ OnBits(eguess, get_target_partial_subkey(ebeta)) \notin {0, eguess}

\* the rounds i .. num_rounds - 1 of encrypt, each with its permutation
RECURSIVE RoundsBeforeLast(_, _, _, _)
RoundsBeforeLast(s, state, i, num_rounds) ==
    IF i >= num_rounds THEN state
    ELSE RoundsBeforeLast(s, permutation(s, substitution(s, Xor(state, s.round_keys[i]))),
                          i + 1, num_rounds)

\* the state of encrypt(plaintext, num_rounds) right after the key mixing of
\* round num_rounds, as it enters the last substitution
EntersLastSbox(s, plaintext, num_rounds) ==
    Xor(RoundsBeforeLast(s, plaintext, 1, num_rounds), s.round_keys[num_rounds])

\* C15: with key_guess = round_keys[N], N the cipher's round count,
\* _partially_decrypt turns every ciphertext encrypt(P, N) into the state
\* that entered the substitution of round N; the linear variant returns the
\* plaintexts unchanged beside them, the differential variant the states of
\* both ciphertexts of each pair, those of P and of P xor alpha.
C15_UndoesLastRound ==
    (epc = "decrypted" /\ eguess = eng.spn.round_keys[eng.spn.rounds + 1]) =>
        /\ Len(elists[1]) = Len(eplain) /\ Len(elists[2]) = Len(eplain)
        /\ \A n \in 1..Len(eplain) :
              IF eng.variant = "linear"
              THEN /\ elists[1][n] = eplain[n]
                   /\ elists[2][n] = EntersLastSbox(eng.spn, eplain[n], eng.spn.rounds)
              ELSE /\ elists[1][n] = EntersLastSbox(eng.spn, eplain[n], eng.spn.rounds)
                   /\ elists[2][n] = EntersLastSbox(eng.spn, Xor(eplain[n], ealpha),
                                                    eng.spn.rounds)

\* C15 witness: two different samples of a three-round cipher, differential
\* variant, partially decrypted with the last round key
C15_Witness ==
    /\ epc = "decrypted" /\ eng.variant = "differential" /\ eng.spn.rounds = 3
    /\ eguess = eng.spn.round_keys[4]
    /\ Len(eplain) = 2 /\ eplain[1] # eplain[2]

====
